---- MODULE Spec2Model ----
(***************************************************************************)
(* Model of ipy_compare.panel.Compare: the pagination cursor, the radio    *)
(* button memo, and the measurement log, driven by the three button        *)
(* callbacks (Previous, Submit, Submit & Next), by the user's radio        *)
(* selections and by direct calls of _update_or_add_measure.               *)
(*                                                                         *)
(* Encoding.  Python's None is NoneIdx (-1) where a row index is expected  *)
(* (row indices are positions >= 0), None ("None") where a column name or  *)
(* a measure is expected, and NoneValue (<<>>) for a cell value.  A list   *)
(* iterator over a list that is never mutated is the sequence of elements  *)
(* it has yet to yield.  The DataFrame has the default RangeIndex, so its  *)
(* index is 0 .. df-1 and df is the number of rows; the cell at (r, c) is  *)
(* <<r, c>>.  Pagination entries are valid positions of the DataFrame.     *)
(***************************************************************************)
EXTENDS Integers, Sequences, FiniteSets, TLC

\* ---- bounds of the model ------------------------------------------------
\* rows of the DataFrame (0 .. MaxRows)
MaxRows == 2
\* length of a custom pagination (0 .. MaxPag), repeats allowed
MaxPag == 2
\* direct calls of _update_or_add_measure in one behaviour
MaxCalls == 2
\* measurements of DataFrame rows in the log: a save that would exceed it is
\* not taken (the one entry a save on an exhausted cursor writes is not counted)
MaxLog == 2

\* ---- encodings of Python's None ------------------------------------------
NoneIdx == -1
None == "None"
NoneValue == << >>
NonePagination == << NoneIdx >>

\* ---- the fixture: columns and vocabularies -------------------------------
Columns == << "c1" >>
OverallVocab == << "Good" >>
EachVocab == << "Yes", "No" >>
Bogus == "Bogus"

VARIABLES
    df,               \* number of rows of self.df (RangeIndex 0 .. df-1)
    measures,         \* the set of keys of self.measures ("overall", "each")
    pagination_arg,   \* the constructor's pagination argument
    pagination,       \* self.pagination
    pagination_iter,  \* self.pagination_iter: the elements yet to be yielded
    current_index,    \* self.current_index
    measurements,     \* self.measurements
    radio_buttons,    \* self.radio_buttons: key -> the widget's value
    err,              \* the exception the last call ended with, or "none"
    last,             \* history: the last call, the cursor before it, the
                      \* _update_or_add_measure calls it made
    recorded,         \* history: the (row, column, type) triples ever recorded
    nav,              \* history: calls of Submit & Next since construction,
                      \* whether Previous was called, and the position of a
                      \* reference cursor driven by the same calls
    calls             \* history: number of direct _update_or_add_measure calls

vars == << df, measures, pagination_arg, pagination, pagination_iter,
           current_index, measurements, radio_buttons, err, last, recorded,
           nav, calls >>

\* ---- helpers ---------------------------------------------------------------
Range(s) == { s[i] : i \in 1..Len(s) }

SeqsUpTo(S, n) == UNION { [1..k -> S] : k \in 0..n }

\* list(df.index) for the default RangeIndex
DfIndex(n) == [i \in 1..n |-> i - 1]

\* self.measures.get(key, []): the vocabulary list under a key of measures
Vocabulary(ms, key) ==
    IF key \notin ms THEN << >>
    ELSE IF key = "overall" THEN OverallVocab ELSE EachVocab

\* the options of the radio button group stored under key k of radio_buttons
Options(ms, k) ==
    {None} \cup Range(Vocabulary(ms, IF k = "overall" THEN "overall" ELSE "each"))

\* df.iloc[row][col]
Cell(row, col) == << row, col >>

\* the exception df.iloc[row] raises, or "none"
IlocErr(n, row) ==
    IF row = NoneIdx THEN "TypeError"
    ELSE IF row \notin 0..(n - 1) THEN "IndexError"
    ELSE "none"

\* list.index(x): the 0-based position of the first occurrence, -1 for ValueError
ListIndex(s, x) ==
    IF x \in Range(s)
    THEN (CHOOSE i \in 1..Len(s) : s[i] = x /\ \A j \in 1..(i - 1) : s[j] # x) - 1
    ELSE -1

\* ---- construction -----------------------------------------------------------
\* lines 48-51: the pagination list
MakePagination(n, arg) ==
    IF arg = NonePagination THEN DfIndex(n) ELSE arg

\* mutant: the cursor starts on row 0 whatever the pagination holds
InitCursor_FirstRow(p) ==
    IF Len(p) > 0 THEN 0 ELSE NoneIdx

\* line 53: the initial cursor
InitCursor(p) ==
    IF Len(p) > 0 THEN p[1] ELSE NoneIdx

\* ---- the measurement log ------------------------------------------------------
Measurement(row, column, value, measure, type) ==
    [row_index |-> row, column |-> column, value |-> value,
     measure |-> measure, type |-> type]

\* mutant: an entry is recognised by its row alone
SameKey_RowOnly(e, row, column, type) ==
    e.row_index = row

SameKey(e, row, column, type) ==
    e.row_index = row /\ e.column = column /\ e.type = type

\* mutant: every call appends
UpdateOrAddMeasure_Append(log, row, column, value, measure, type) ==
    Append(log, Measurement(row, column, value, measure, type))

\* _update_or_add_measure: overwrite the first entry with the key, else append
UpdateOrAddMeasure(log, row, column, value, measure, type) ==
    IF \E i \in 1..Len(log) : SameKey(log[i], row, column, type)
    THEN LET i == CHOOSE k \in 1..Len(log) :
                    /\ SameKey(log[k], row, column, type)
                    /\ \A j \in 1..(k - 1) : ~SameKey(log[j], row, column, type)
         IN  [log EXCEPT ![i].measure = measure]
    ELSE Append(log, Measurement(row, column, value, measure, type))

\* _get_saved_measure(column) for the cursor cur: the first entry of the row
\* whose column field equals the argument
GetSavedMeasure(log, cur, column) ==
    IF \E i \in 1..Len(log) : log[i].row_index = cur /\ log[i].column = column
    THEN LET i == CHOOSE k \in 1..Len(log) :
                    /\ log[k].row_index = cur /\ log[k].column = column
                    /\ \A j \in 1..(k - 1) :
                          ~(log[j].row_index = cur /\ log[j].column = column)
         IN  log[i].measure
    ELSE None

\* get_measurements(): the log as a table
get_measurements == measurements

\* ---- rendering: the radio button memo ---------------------------------------
\* _get_or_create_radio_buttons(col): create with value None, then restore a
\* saved measure when one is found (and only then)
GetOrCreateRadioButtons(radio, log, cur, col) ==
    LET r0 == IF col \in DOMAIN radio THEN radio ELSE radio @@ (col :> None)
        saved == GetSavedMeasure(log, cur, col)
    IN  IF saved # None THEN [r0 EXCEPT ![col] = saved] ELSE r0

\* _add_overall_measure_buttons: the same under the key "overall", the saved
\* measure looked up with column "overall"
AddOverallMeasureButtons(radio, log, cur) ==
    LET r0 == IF "overall" \in DOMAIN radio THEN radio
              ELSE radio @@ ("overall" :> None)
        saved == GetSavedMeasure(log, cur, "overall")
    IN  IF saved # None THEN [r0 EXCEPT !["overall"] = saved] ELSE r0

\* _generate_row_layout: the loop over self.columns
RECURSIVE GenerateRowLayout(_, _, _, _, _)
GenerateRowLayout(radio, log, cur, ms, i) ==
    IF i > Len(Columns) THEN radio
    ELSE GenerateRowLayout(
             IF "each" \in ms
             THEN GetOrCreateRadioButtons(radio, log, cur, Columns[i])
             ELSE radio,
             log, cur, ms, i + 1)

\* render(): nothing but the terminal message when there is no current row
Render(radio, log, cur, ms) ==
    IF cur = NoneIdx THEN radio
    ELSE LET r1 == GenerateRowLayout(radio, log, cur, ms, 1)
         IN  IF "overall" \in ms
             THEN AddOverallMeasureButtons(r1, log, cur)
             ELSE r1

\* ---- saving ---------------------------------------------------------------------
\* One _update_or_add_measure call, as the history records it
Call(row, column, measure, type) ==
    [row_index |-> row, column |-> column, measure |-> measure, type |-> type]

\* lines 265-270: the loop over self.columns; st = [log, calls, err]
RECURSIVE SaveColumns(_, _, _, _, _)
SaveColumns(st, n, row, radio, i) ==
    IF i > Len(Columns) \/ st.err # "none" THEN st
    ELSE LET col == Columns[i]
         IN  IF col \in DOMAIN radio /\ radio[col] # None
             THEN IF IlocErr(n, row) # "none"
                  THEN [st EXCEPT !.err = IlocErr(n, row)]
                  ELSE SaveColumns(
                         [log |-> UpdateOrAddMeasure(st.log, row, col,
                                      Cell(row, col), radio[col], "column"),
                          calls |-> Append(st.calls,
                                      Call(row, col, radio[col], "column")),
                          err |-> "none"],
                         n, row, radio, i + 1)
             ELSE SaveColumns(st, n, row, radio, i + 1)

\* mutant: the overall selection is written without the test for None
SaveOrUpdateMeasures_WritesUnset(log, n, row, radio) ==
    LET st0 == [log |-> log, calls |-> << >>, err |-> "none"]
        st1 == IF "overall" \in DOMAIN radio
               THEN [log |-> UpdateOrAddMeasure(log, row, None, NoneValue,
                                 radio["overall"], "overall"),
                     calls |-> << Call(row, None, radio["overall"], "overall") >>,
                     err |-> "none"]
               ELSE st0
    IN  SaveColumns(st1, n, row, radio, 1)

\* _save_or_update_measures: the overall slot first, then the columns
SaveOrUpdateMeasures(log, n, row, radio) ==
    LET st0 == [log |-> log, calls |-> << >>, err |-> "none"]
        st1 == IF "overall" \in DOMAIN radio /\ radio["overall"] # None
               THEN [log |-> UpdateOrAddMeasure(log, row, None, NoneValue,
                                 radio["overall"], "overall"),
                     calls |-> << Call(row, None, radio["overall"], "overall") >>,
                     err |-> "none"]
               ELSE st0
    IN  SaveColumns(st1, n, row, radio, 1)

\* ---- history -------------------------------------------------------------------
Triple(c) == << c.row_index, c.column, c.type >>

KeyOf(e) == << e.row_index, e.column, e.type >>

\* the call c finds its triple in the log with another measure
Overwrites(log, c) ==
    \E i \in 1..Len(log) :
       KeyOf(log[i]) = Triple(c) /\ log[i].measure # c.measure

\* what the history keeps of a call: its name, the cursor before it, the
\* _update_or_add_measure calls it made, whether one of them overwrote, and
\* (back) the row a Previous had just left when the call is the Submit & Next
\* that follows it
Last(op, from, cs, log) ==
    [op |-> op, from |-> from, calls |-> cs,
     overwrote |-> \E i \in 1..Len(cs) : Overwrites(log, cs[i]),
     back |-> NoneIdx]

\* the row the preceding call left, when that call was a Previous that moved
LeftByPrevious ==
    IF last.op = "previous" /\ err = "none" /\ last.from # current_index
    THEN last.from
    ELSE NoneIdx

\* the reference cursor: a 0-based position in the pagination, -1 when
\* exhausted; advance is position+1 or exhausted, retreat is position-1
\* unless at position 0
RefInit(p) == IF Len(p) > 0 THEN 0 ELSE -1

RefAdvance(p, pos) ==
    IF pos # -1 /\ pos + 1 < Len(p) THEN pos + 1 ELSE -1

RefRetreat(p, pos) ==
    IF pos > 0 THEN pos - 1 ELSE pos

RefCurrent(p, pos) ==
    IF pos = -1 THEN NoneIdx ELSE p[pos + 1]

Min(a, b) == IF a < b THEN a ELSE b

\* the number of entries of the log that belong to a row of the DataFrame
RowEntries(log) ==
    Cardinality({ i \in 1..Len(log) : log[i].row_index # NoneIdx })

Triples(cs) == { Triple(cs[i]) : i \in 1..Len(cs) }

\* ---- construction ----------------------------------------------------------------
Init ==
    /\ df \in 0..MaxRows
    /\ measures \in SUBSET {"overall", "each"}
    /\ pagination_arg \in {NonePagination} \cup SeqsUpTo(0..(df - 1), MaxPag)
    /\ pagination = MakePagination(df, pagination_arg)
    /\ pagination_iter = pagination
    /\ current_index = InitCursor(pagination)
    /\ measurements = << >>
    /\ radio_buttons = Render(<< >>, << >>, current_index, measures)
    /\ err = "none"
    /\ last = Last("init", NoneIdx, << >>, << >>)
    /\ recorded = {}
    /\ nav = [advances |-> 0, retreated |-> FALSE, ref |-> RefInit(pagination)]
    /\ calls = 0

\* ---- the user picks an option of a displayed radio button group ------------------
Select(k, v) ==
    /\ current_index # NoneIdx
    /\ k \in DOMAIN radio_buttons
    /\ v \in Options(measures, k)
    /\ v # radio_buttons[k]
    /\ radio_buttons' = [radio_buttons EXCEPT ![k] = v]
    /\ err' = "none"
    /\ last' = Last("select", current_index, << >>, measurements)
    /\ UNCHANGED << df, measures, pagination_arg, pagination, pagination_iter,
                    current_index, measurements, recorded, nav, calls >>

\* ---- _previous_row ------------------------------------------------------------------
\* mutant: the guard is off by one, the second element does not go back
PrevCursor_OffByOne(p, cur, idx) ==
    IF idx > 1 THEN p[idx] ELSE cur

\* lines 238-239: the cursor after Previous, idx the 0-based position found
PrevCursor(p, cur, idx) ==
    IF idx > 0 THEN p[idx] ELSE cur

\* mutant: Previous leaves the iterator where the forward run had brought it
PrevIter_Stale(p, it, idx) ==
    it

\* line 240: the iterator after Previous, restarted on pagination[idx:]
PrevIter(p, it, idx) ==
    IF idx > 0 THEN SubSeq(p, idx + 1, Len(p)) ELSE it

\* mutant: Previous saves the selections before it moves, as Submit & Next does
PreviousRow_Saves ==
    LET r == SaveOrUpdateMeasures(measurements, df, current_index, radio_buttons)
        idx == ListIndex(pagination, current_index)
        cur == PrevCursor(pagination, current_index, idx)
    IN  /\ RowEntries(r.log) <= MaxLog
        /\ last' = Last("previous", current_index, r.calls, measurements)
        /\ nav' = [nav EXCEPT !.retreated = TRUE,
                              !.ref = RefRetreat(pagination, @)]
        /\ measurements' = r.log
        /\ recorded' = recorded \cup Triples(r.calls)
        /\ IF idx = -1 \/ r.err # "none"
           THEN /\ err' = IF r.err # "none" THEN r.err ELSE "ValueError"
                /\ UNCHANGED << current_index, pagination_iter, radio_buttons >>
           ELSE /\ err' = "none"
                /\ current_index' = cur
                /\ pagination_iter' = PrevIter(pagination, pagination_iter, idx)
                /\ radio_buttons' = Render(radio_buttons, r.log, cur, measures)
        /\ UNCHANGED << df, measures, pagination_arg, pagination, calls >>

PreviousRow ==
    LET idx == ListIndex(pagination, current_index)
        cur == PrevCursor(pagination, current_index, idx)
    IN  /\ last' = Last("previous", current_index, << >>, measurements)
        /\ nav' = [nav EXCEPT !.retreated = TRUE,
                              !.ref = RefRetreat(pagination, @)]
        /\ IF idx = -1
           THEN /\ err' = "ValueError"
                /\ UNCHANGED << current_index, pagination_iter, radio_buttons >>
           ELSE /\ err' = "none"
                /\ current_index' = cur
                /\ pagination_iter' = PrevIter(pagination, pagination_iter, idx)
                /\ radio_buttons' =
                      Render(radio_buttons, measurements, cur, measures)
        /\ UNCHANGED << df, measures, pagination_arg, pagination, measurements,
                        recorded, calls >>

\* ---- _submit_measures -----------------------------------------------------------------
SubmitMeasures ==
    LET r == SaveOrUpdateMeasures(measurements, df, current_index, radio_buttons)
    IN  /\ RowEntries(r.log) <= MaxLog
        /\ measurements' = r.log
        /\ err' = r.err
        /\ recorded' = recorded \cup Triples(r.calls)
        /\ last' = Last("submit", current_index, r.calls, measurements)
        /\ radio_buttons' =
              IF r.err = "none"
              THEN Render(radio_buttons, r.log, current_index, measures)
              ELSE radio_buttons
        /\ UNCHANGED << df, measures, pagination_arg, pagination, pagination_iter,
                        current_index, nav, calls >>

\* ---- _submit_and_next ------------------------------------------------------------------
\* next(self.pagination_iter), StopIteration giving None
\* mutant: the cursor is given the position reached, not the element there
NextIndex_Position(it) ==
    IF it # << >> THEN Len(pagination) - Len(it) ELSE NoneIdx

NextIndex(it) == IF it # << >> THEN Head(it) ELSE NoneIdx

\* mutant: StopIteration rewinds the iterator to the start of the pagination
NextIter_Rewind(it) == IF it # << >> THEN Tail(it) ELSE pagination

NextIter(it) == IF it # << >> THEN Tail(it) ELSE it

SubmitAndNext ==
    LET r == SaveOrUpdateMeasures(measurements, df, current_index, radio_buttons)
        cur == IF r.err = "none" THEN NextIndex(pagination_iter) ELSE current_index
    IN  /\ RowEntries(r.log) <= MaxLog
        /\ measurements' = r.log
        /\ err' = r.err
        /\ recorded' = recorded \cup Triples(r.calls)
        /\ last' = [Last("next", current_index, r.calls, measurements)
                       EXCEPT !.back = LeftByPrevious]
        /\ nav' = [nav EXCEPT !.advances = Min(@ + 1, Len(pagination) + 1),
                              !.ref = RefAdvance(pagination, @)]
        /\ current_index' = cur
        /\ pagination_iter' =
              IF r.err = "none" THEN NextIter(pagination_iter) ELSE pagination_iter
        /\ radio_buttons' =
              IF r.err = "none"
              THEN Render(radio_buttons, r.log, cur, measures)
              ELSE radio_buttons
        /\ UNCHANGED << df, measures, pagination_arg, pagination, calls >>

\* ---- a direct call of _update_or_add_measure, as the tests make it ---------------------
Record(row, column, measure) ==
    LET type == IF column = None THEN "overall" ELSE "column"
        value == IF column = None THEN NoneValue ELSE Cell(row, column)
        c == Call(row, column, measure, type)
        log == UpdateOrAddMeasure(measurements, row, column, value, measure, type)
    IN  /\ calls < MaxCalls
        /\ RowEntries(log) <= MaxLog
        /\ calls' = calls + 1
        /\ measurements' = log
        /\ err' = "none"
        /\ recorded' = recorded \cup {Triple(c)}
        /\ last' = Last("record", current_index, << c >>, measurements)
        /\ UNCHANGED << df, measures, pagination_arg, pagination, pagination_iter,
                        current_index, radio_buttons, nav >>

\* The user's choice of a button group and of one of its options
SelectAny ==
    \E k \in Range(Columns) \cup {"overall"} :
       \E v \in {None} \cup Range(OverallVocab) \cup Range(EachVocab) :
          Select(k, v)

\* The arguments of a direct call: a row of the DataFrame, a slot, a measure of
\* the slot's vocabulary or one outside it
RecordAny ==
    \E row \in 0..(df - 1) :
       \E column \in Range(Columns) \cup {None} :
          \E measure \in Range(Vocabulary(measures,
                              IF column = None THEN "overall" ELSE "each"))
                           \cup {Bogus} :
             Record(row, column, measure)

\* The session as the notebook user drives it: radio selections and the buttons
Next ==
    \/ SelectAny
    \/ PreviousRow
    \/ SubmitMeasures
    \/ SubmitAndNext

Spec == Init /\ [][Next]_vars

\* The session as a program drives it (the tests): direct calls of
\* _update_or_add_measure and the button callbacks
NextApi ==
    \/ RecordAny
    \/ PreviousRow
    \/ SubmitMeasures
    \/ SubmitAndNext

SpecApi == Init /\ [][NextApi]_vars

\* ==== the claims ===================================================================
NoRepeats(p) == \A i, j \in 1..Len(p) : p[i] = p[j] => i = j

\* the 1-based position of x in a repeat-free p
Pos(p, x) == CHOOSE i \in 1..Len(p) : p[i] = x

\* the argument _get_saved_measure is given for the slot of a call
SlotName(c) == IF c.type = "overall" THEN "overall" ELSE c.column

\* C1: one Submit & Next from an active cursor at a position that is not the
\* last puts the cursor on the element at the next position, and from the last
\* position exhausts it (stated where positions are unambiguous: a repeat-free
\* pagination).
C1_AdvanceMovesToNext ==
    (last.op = "next" /\ last.from # NoneIdx /\ NoRepeats(pagination)) =>
        current_index =
            IF Pos(pagination, last.from) < Len(pagination)
            THEN pagination[Pos(pagination, last.from) + 1]
            ELSE NoneIdx

\* C2: with a pagination of length k > 0 and no Previous, the cursor is
\* exhausted after exactly k Submit & Next calls and active after fewer.
C2_ExhaustedAfterKAdvances ==
    (~nav.retreated /\ Len(pagination) > 0) =>
        /\ nav.advances = Len(pagination) => current_index = NoneIdx
        /\ nav.advances < Len(pagination) => current_index # NoneIdx

\* C3: right after construction the cursor is the first row identifier of the
\* records (pagination omitted) or the first supplied element (custom
\* pagination), None when that sequence is empty, and the log is empty.
C3_InitialCursor ==
    last.op = "init" =>
        /\ current_index =
              IF pagination_arg = NonePagination
              THEN (IF df > 0 THEN 0 ELSE NoneIdx)
              ELSE (IF Len(pagination_arg) > 0 THEN pagination_arg[1] ELSE NoneIdx)
        /\ get_measurements = << >>

C3_Witness ==
    /\ last.op = "init"
    /\ pagination_arg # NonePagination
    /\ Len(pagination_arg) = MaxPag
    /\ current_index = 1

\* C4: a measure recorded for the current row in any slot, the overall slot
\* included, is what _get_saved_measure returns for that row and slot right
\* after the recording.
C4_RoundTrip ==
    (last.op \in {"submit", "record"} /\ err = "none") =>
        \A i \in 1..Len(last.calls) :
            last.calls[i].row_index = current_index =>
                GetSavedMeasure(measurements, current_index,
                                SlotName(last.calls[i])) = last.calls[i].measure

\* C5: the log holds at most one Measurement per (row_index, column, type), and
\* after a recording the one entry of the recorded triple carries the measure
\* just recorded.
C5_OnePerTriple ==
    /\ \A i, j \in 1..Len(measurements) :
          KeyOf(measurements[i]) = KeyOf(measurements[j]) => i = j
    /\ \A n \in 1..Len(last.calls) :
          \E i \in 1..Len(measurements) :
             /\ KeyOf(measurements[i]) = Triple(last.calls[n])
             /\ measurements[i].measure = last.calls[n].measure

C5_Witness ==
    /\ last.overwrote
    /\ Len(measurements) = 1
    /\ measurements[1].measure = last.calls[1].measure

\* C6: Previous from the second pagination element puts the cursor on the
\* first; in a repeat-free pagination Previous from position i > 0 puts it on
\* position i-1; Previous on the first element leaves the cursor where it is.
C6_Retreat ==
    (last.op = "previous" /\ last.from # NoneIdx) =>
        /\ (Len(pagination) >= 2 /\ last.from = pagination[2]) =>
              current_index = pagination[1]
        /\ NoRepeats(pagination) =>
              current_index =
                  IF Pos(pagination, last.from) > 1
                  THEN pagination[Pos(pagination, last.from) - 1]
                  ELSE last.from
        /\ last.from = pagination[1] => current_index = last.from

C6_Witness ==
    /\ last.op = "previous"
    /\ Len(pagination) >= 2
    /\ pagination[1] # pagination[2]
    /\ last.from = pagination[2]
    /\ current_index = pagination[1]

\* C7: Previous with no current row completes without an error and leaves the
\* cursor exhausted.
C7_RetreatExhaustedNoOp ==
    (last.op = "previous" /\ last.from = NoneIdx) =>
        (err = "none" /\ current_index = NoneIdx)

\* C8: Submit & Next on an exhausted cursor leaves it exhausted.
C8_StaysExhausted ==
    (last.op = "next" /\ last.from = NoneIdx) => current_index = NoneIdx

C8_Witness ==
    /\ last.op = "next"
    /\ last.from = NoneIdx
    /\ Len(pagination) > 0
    /\ err = "none"
    /\ current_index = NoneIdx

\* C9: the exported log is as long as the set of (row_index, column, type)
\* triples ever recorded, and every triple ever recorded has its entry.
C9_LengthIsTriples ==
    /\ Len(get_measurements) = Cardinality(recorded)
    /\ \A t \in recorded :
          \E i \in 1..Len(get_measurements) : KeyOf(get_measurements[i]) = t

C9_Witness ==
    /\ Cardinality(recorded) = 2
    /\ Len(get_measurements) = 2
    /\ last.overwrote

\* C10: every Measurement in the log carries a measure of the vocabulary of its
\* type (a recording with a measure outside it is rejected).
C10_MeasuresInVocabulary ==
    \A i \in 1..Len(measurements) :
        measurements[i].measure \in
            Range(Vocabulary(measures,
                    IF measurements[i].type = "overall" THEN "overall" ELSE "each"))

\* the entries of the log for a row and the slot of the radio group under key k
EntriesFor(log, row, k) ==
    { e \in Range(log) :
        /\ e.row_index = row
        /\ IF k = "overall"
           THEN e.type = "overall" /\ e.column = None
           ELSE e.type = "column" /\ e.column = k }

\* C11: a Submit or Submit & Next made while a slot's radio group shows None
\* leaves the entries of the log for the current row and that slot as they
\* were: none is added and a saved one keeps its measure.
C11_UnsetWritesNothing ==
    [][\A k \in DOMAIN radio_buttons :
          (last'.op \in {"submit", "next"} /\ radio_buttons[k] = None) =>
             EntriesFor(measurements', current_index, k) =
                EntriesFor(measurements, current_index, k)]_vars

C11_Witness ==
    /\ last.op = "submit"
    /\ err = "none"
    /\ last.calls = << >>
    /\ "overall" \in DOMAIN radio_buttons
    /\ radio_buttons["overall"] = None
    /\ EntriesFor(measurements, current_index, "overall") # {}

\* C13: every Measurement in the log has a row_index that is a row of the
\* DataFrame and an element of the pagination; a save on an exhausted cursor
\* writes no Measurement for None.
C13_RowsAreKeys ==
    \A i \in 1..Len(measurements) :
        /\ measurements[i].row_index \in 0..(df - 1)
        /\ measurements[i].row_index \in Range(pagination)

\* C14: when Submit & Next or Previous brings the cursor to another row, every
\* radio group whose slot has no saved Measurement for that row shows None.
C14_NoCarryOver ==
    (/\ last.op \in {"next", "previous"}
     /\ err = "none"
     /\ current_index # NoneIdx
     /\ current_index # last.from) =>
        \A k \in DOMAIN radio_buttons :
            EntriesFor(measurements, current_index, k) = {} =>
                radio_buttons[k] = None

\* C15: a call that ends in an error leaves the cursor and the log as they
\* were before it.
C15_ErrorsChangeNothing ==
    [][err' # "none" =>
          (measurements' = measurements /\ current_index' = current_index)]_vars

\* C16: after every call the current row is the one a reference cursor shows
\* that keeps an integer position in the pagination, repeats included.
C16_MatchesReferenceCursor ==
    current_index = RefCurrent(pagination, nav.ref)

\* C17: in a repeat-free pagination, a Previous that moved the cursor off row X
\* followed at once by Submit & Next puts the cursor back on X.
C17_RetreatThenAdvance ==
    (last.op = "next" /\ last.back # NoneIdx /\ NoRepeats(pagination)) =>
        current_index = last.back

C17_Witness ==
    /\ last.op = "next"
    /\ last.back # NoneIdx
    /\ NoRepeats(pagination)
    /\ Len(pagination) >= 2
    /\ current_index = last.back
    /\ current_index = pagination[2]

\* C18: Previous leaves the measurement log as it was, so what
\* _get_saved_measure returns for the row it arrives on is what the log held
\* for that row before.
C18_RetreatKeepsLog ==
    [][last'.op = "previous" =>
          /\ measurements' = measurements
          /\ \A k \in Range(Columns) \cup {"overall"} :
                GetSavedMeasure(measurements', current_index', k) =
                   GetSavedMeasure(measurements, current_index', k)]_vars

C18_Witness ==
    /\ last.op = "previous"
    /\ err = "none"
    /\ last.from # current_index
    /\ GetSavedMeasure(measurements, current_index, Columns[1]) # None

\* C19: the cursor is None or an element of the pagination, and the
\* pagination is the list made at construction.
C19_CursorInPagination ==
    /\ current_index \in Range(pagination) \cup {NoneIdx}
    /\ pagination = MakePagination(df, pagination_arg)

C19_Witness ==
    /\ last.op = "next"
    /\ pagination_arg # NonePagination
    /\ last.from # NoneIdx
    /\ current_index # NoneIdx
    /\ current_index # last.from
    /\ Len(measurements) > 0

====
